---- MODULE Spec2Model ----
(***************************************************************************)
(* A model of django-galleryfield: the gallery_widget form field           *)
(* (GalleryFormField.to_python / clean, its image-count validator, its     *)
(* max_number_of_images and widget setters), the gallery multi-value form  *)
(* field (clean / compress), the model fields' formfield() and             *)
(* save_form_data(), the GalleryDescriptor / GalleryImages proxy with its  *)
(* identity and in-place changes, the setup of the upload, list and crop   *)
(* views, and the image listing view with its pks parameter.               *)
(***************************************************************************)
EXTENDS Integers, Sequences, FiniteSets, TLC

VARIABLES
    rows,     \* the target image table: the pks of its rows, in insertion order
    wfield,   \* a gallery_widget GalleryFormField
    gfield,   \* a gallery GalleryFormField (the multi-value one)
    ginst,    \* a model instance holding a gallery GalleryField
    winst,    \* the __dict__ entry of a gallery_widget GalleryField on an instance
    col,      \* the JSON column of that instance's row in the database
    assigned, \* history: the value most recently assigned to or loaded into winst
    view,     \* the class attributes of the listing view in use
    held,     \* the GalleryImages the program kept from its last read of winst
    last      \* the last operation: its name, its input and its outcome

vars == <<rows, wfield, gfield, ginst, winst, col, assigned, view, held, last>>

(***************************************************************************)
(* Bounds of the model.                                                    *)
(***************************************************************************)
MaxId == 2        \* pks are 1..MaxId
MaxLen == 2       \* submitted / stored lists hold at most MaxLen elements
MaxAssignments == 2   \* limits assigned to one field's max_number_of_images

Ids == 1..MaxId

SeqsUpTo(S, n) == UNION {[1..m -> S] : m \in 0..n}

Range(s) == {s[i] : i \in DOMAIN s}

(***************************************************************************)
(* Python values.  A value is a record [k, n, items, enc]:                 *)
(*   k = "None"                      None                                  *)
(*   k = "str",  n = 0               the empty string ''                   *)
(*   k = "str",  n = 1               the string 'abc' (not JSON text)      *)
(*   k = "int",  n                   the integer n                         *)
(*   k = "dict", n                   a dict with n keys                    *)
(*   k = "list" / "tuple", items     a list / tuple of elements            *)
(* enc counts JSON encodings: enc = 1 is the str holding the JSON text of  *)
(* the value with enc = 0 ('[1, 2]' is the list [1, 2] with enc = 1,       *)
(* '""' is '' with enc = 1).                                               *)
(* An element of a list is a record [t, n]:                                *)
(*   t = "int"    the integer n (n may be negative)                        *)
(*   t = "dec"    the decimal string of n, such as "1"                     *)
(*   t = "sup"    a string of superscript digits, such as "²"              *)
(*   t = "alpha"  a string with a letter, such as "a"                      *)
(***************************************************************************)
Val(k, n, items, enc) == [k |-> k, n |-> n, items |-> items, enc |-> enc]

None == Val("None", 0, <<>>, 0)
\* an attribute that was never set
Unset == Val("unset", 0, <<>>, 0)
EmptyStr == Val("str", 0, <<>>, 0)
BadText == Val("str", 1, <<>>, 0)
PyInt(n) == Val("int", n, <<>>, 0)
Dict(n) == Val("dict", n, <<>>, 0)
List(items) == Val("list", 0, items, 0)
Tuple(items) == Val("tuple", 0, items, 0)

IdElem(i) == [t |-> "int", n |-> i]
DecElem(i) == [t |-> "dec", n |-> i]
SupElem == [t |-> "sup", n |-> 2]
AlphaElem == [t |-> "alpha", n |-> 0]
NegElem == [t |-> "int", n |-> -1]

\* isinstance(v, str)
IsStr(v) == v.enc > 0 \/ v.k = "str"

\* json.dumps(v): a tuple is written as a list
Dumps(v) == [v EXCEPT !.enc = v.enc + 1, !.k = IF v.k = "tuple" /\ v.enc = 0 THEN "list" ELSE v.k]

\* json.loads(v) of a str holding JSON text
Loads(v) == [v EXCEPT !.enc = v.enc - 1]

\* whether json.loads(v) raises JSONDecodeError: '' and 'abc' are not JSON text
IsJsonText(v) == v.enc > 0

\* len(v) of a str, list, tuple or dict: JSON text is never the empty string
PyLen(v) ==
    IF v.enc > 0 THEN 2 + v.n + Len(v.items)
    ELSE IF v.k \in {"list", "tuple", "GalleryImages"} THEN Len(v.items)
    ELSE v.n

\* bool(v)
Truthy(v) ==
    CASE v.enc > 0 -> TRUE
      [] v.k = "None" -> FALSE
      [] v.k = "int" -> v.n # 0
      [] OTHER -> PyLen(v) > 0

\* v in django.core.validators.EMPTY_VALUES == (None, '', [], (), {})
InEmptyValues(v) ==
    /\ v.enc = 0
    /\ \/ v.k = "None"
       \/ v.k \in {"str", "dict"} /\ v.n = 0
       \/ v.k \in {"list", "tuple"} /\ v.items = <<>>

\* str(pk).isdigit()
IsDigit(e) ==
    CASE e.t = "int" -> e.n >= 0
      [] e.t = "dec" -> TRUE
      [] e.t = "sup" -> TRUE
      [] OTHER -> FALSE

\* whether int(pk) returns (it raises ValueError on a superscript digit)
IntOk(e) == e.t \in {"int", "dec"}

\* int(pk), and the pk a lookup pk=<element> compares with
IntOf(e) == e.n

(***************************************************************************)
(* The image table.                                                        *)
(***************************************************************************)
RowIds == Range(rows)

\* model.objects.filter(pk=pk).count()
RowCount(pk) == Cardinality({i \in DOMAIN rows : rows[i] = IntOf(pk)})

\* model.objects.filter(pk__in=pks).count()
RowCountIn(pks) == Cardinality({i \in DOMAIN rows : rows[i] \in {IntOf(pks[j]) : j \in DOMAIN pks}})

CreateRow(id) ==
    /\ id \notin RowIds
    /\ rows' = Append(rows, id)
    /\ last' = [op |-> "create_row", in |-> PyInt(id)]
    /\ UNCHANGED <<wfield, gfield, ginst, winst, col, assigned, view, held>>

DeleteRow(id) ==
    /\ id \in RowIds
    /\ rows' = SelectSeq(rows, LAMBDA r : r # id)
    /\ last' = [op |-> "delete_row", in |-> PyInt(id)]
    /\ UNCHANGED <<wfield, gfield, ginst, winst, col, assigned, view, held>>

(***************************************************************************)
(* Outcomes of an operation: a returned value or a raised exception.       *)
(* codes is the set of codes of a ValidationError's errors.                *)
(***************************************************************************)
Return(v) == [exc |-> "none", codes |-> {}, val |-> v]
Raise(e, codes) == [exc |-> e, codes |-> codes, val |-> None]

(***************************************************************************)
(* gallery_widget: GalleryFormField                                        *)
(***************************************************************************)
\* the image models a field can point at: the built-in default and one of
\* the project's own
DefaultTargetImageModel == "gallery_widget.BuiltInGalleryImage"
ImageModels == {DefaultTargetImageModel, "my_app.MyImage"}

\* a widget attribute that holds a URL name: None, '', or a name written
\* as <name>-<suffix>; a widget that is no GalleryWidget has no such attribute
NoneUrl == [k |-> "None", name |-> "", suffix |-> ""]
EmptyUrl == [k |-> "str", name |-> "", suffix |-> ""]
UrlName(name, suffix) == [k |-> "str", name |-> name, suffix |-> suffix]
NoUrlAttr == [k |-> "unset", name |-> "", suffix |-> ""]

\* bool(url)
UrlTruthy(u) == u.k = "str" /\ u # EmptyUrl

\* a widget before a field touched it
Widget(kind, upload_handler_url, fetch_request_url, disable_fetch) ==
    [kind |-> kind,
     upload_handler_url |-> upload_handler_url,
     fetch_request_url |-> fetch_request_url,
     disable_fetch |-> disable_fetch,
     max_number_of_images |-> Unset,
     image_model |-> "unset",
     widget_is_servicing |-> "unset"]

\* the widget of a field to which no widget was assigned in the model: the
\* one Field.__init__ instantiates from the class attribute _widget
ClassWidget == Widget("GalleryWidget class", NoUrlAttr, NoUrlAttr, FALSE)

\* GalleryFormField.__init__ with target_model and model_field: the limit is
\* stored and no validator is appended; "None" is a parameter left out
WFormFieldFor(required, max_number_of_images, target_model, model_field) ==
    [required |-> required,
     max |-> max_number_of_images,
     validators |-> <<>>,
     image_model |-> IF target_model = "None" THEN DefaultTargetImageModel
                     ELSE target_model,
     widget_is_servicing |-> IF model_field = "None" THEN "GalleryFormField"
                             ELSE model_field,
     widget |-> ClassWidget]

\* GalleryFormField.__init__ with no target_model and no model_field
WFormField(required, max_number_of_images) ==
    WFormFieldFor(required, max_number_of_images, "None", "None")

\* a to_python that keeps the pks that have no row
ExistingPksKeepsAll(converted) == converted

\* the filtering loop of to_python: the pks that have a row, in order
ExistingPks(converted) == SelectSeq(converted, LAMBDA pk : RowCount(pk) > 0)

\* forms.JSONField.to_python
JsonToPython(value) ==
    IF InEmptyValues(value) THEN Return(None)
    ELSE IF ~IsStr(value) THEN Return(value)
    ELSE IF ~IsJsonText(value) THEN Raise("ValidationError", {"invalid"})
    ELSE Return(Loads(value))

\* GalleryFormField.to_python
ToPython(value) ==
    LET sup == JsonToPython(value)
        converted == sup.val
    IN  IF sup.exc # "none" THEN sup
        ELSE IF InEmptyValues(converted) THEN Return(converted)
        ELSE IF ~(converted.k = "list" /\ converted.enc = 0)
            THEN Raise("ValidationError", {"invalid"})
        ELSE IF \E i \in DOMAIN converted.items : ~IsDigit(converted.items[i])
            THEN Raise("ValidationError", {"invalid"})
        ELSE IF \E i \in DOMAIN converted.items : ~IntOk(converted.items[i])
            THEN Raise("ValueError", {})
        ELSE IF RowCountIn(converted.items) # Len(converted.items)
            THEN Return(List(ExistingPks(converted.items)))
        ELSE Return(converted)

\* MaxNumberOfImageValidator(limit)(value): compare(len(value), limit)
MaxNumberOfImageValidator(limit, value) == PyLen(value) > limit

\* forms.Field.run_validators: the codes of the validators that reject value
RunValidators(field, value) ==
    IF InEmptyValues(value) THEN {}
    ELSE IF \E i \in DOMAIN field.validators :
                MaxNumberOfImageValidator(field.validators[i], value)
         THEN {"max_number_of_images"}
         ELSE {}

\* forms.Field.validate
Validate(field, value) == InEmptyValues(value) /\ field.required

\* forms.Field.clean of the GalleryFormField
WClean(field, value) ==
    LET py == ToPython(value)
    IN  IF py.exc # "none" THEN py
        ELSE IF Validate(field, py.val) THEN Raise("ValidationError", {"required"})
        ELSE IF RunValidators(field, py.val) # {}
            THEN Raise("ValidationError", RunValidators(field, py.val))
        ELSE py

\* the max_number_of_images setter: whether it raises TypeError
\* (value is not None and not str(value).isdigit())
SetMaxRaises(value) == value.k # "None" /\ ~(value.k = "int" /\ value.n >= 0)

\* the max_number_of_images setter: value is None or an integer
SetMax(field, value) ==
    [field EXCEPT !.max = value,
                  !.widget.max_number_of_images = value,
                  !.validators = IF Truthy(value) THEN Append(@, value.n) ELSE @]

\* _image_model.split(".")[-1]
TargetModelName(image_model) ==
    CASE image_model = "gallery_widget.BuiltInGalleryImage" -> "BuiltInGalleryImage"
      [] image_model = "my_app.MyImage" -> "MyImage"

\* a lower() that leaves the name as it is
LowerKeepsCase(name) == name

\* str.lower()
Lower(name) ==
    CASE name = "BuiltInGalleryImage" -> "builtingalleryimage"
      [] name = "MyImage" -> "myimage"
      [] OTHER -> name

\* _set_widget_upload_handler_url: the widget's upload_handler_url afterwards
SetWidgetUploadHandlerUrl(field, widget) ==
    IF UrlTruthy(widget.upload_handler_url) THEN widget.upload_handler_url
    ELSE UrlName(Lower(TargetModelName(field.image_model)), "upload")

\* _set_widget_fetch_request_url: the widget's fetch_request_url afterwards
SetWidgetFetchRequestUrl(field, widget) ==
    IF widget.disable_fetch \/ UrlTruthy(widget.fetch_request_url)
        THEN widget.fetch_request_url
    ELSE UrlName(Lower(TargetModelName(field.image_model)), "fetch")

\* the widget setter: the widget the field holds afterwards
WidgetSetter(field, value) ==
    LET copied == [value EXCEPT !.max_number_of_images = field.max,
                                !.image_model = field.image_model,
                                !.widget_is_servicing = field.widget_is_servicing]
    IN  IF copied.kind # "GalleryWidget" THEN copied
        ELSE [copied EXCEPT !.upload_handler_url = SetWidgetUploadHandlerUrl(field, copied),
                            !.fetch_request_url = SetWidgetFetchRequestUrl(field, copied)]

(***************************************************************************)
(* Inputs of the gallery_widget form field.  A form hands the field the    *)
(* widget's value: None or a str.                                          *)
(***************************************************************************)
IdElems == {IdElem(i) : i \in Ids}

\* elements that are no plain integer id
Specials == {DecElem(1), SupElem, AlphaElem, NegElem}

\* lists of ids
IdLists == {List(s) : s \in SeqsUpTo(IdElems, MaxLen)}

\* lists holding one element that is no plain integer, among ids, and a list
\* holding two of them
MixedLists ==
    {List(s) : s \in {q \in SeqsUpTo({IdElem(1)} \cup Specials, MaxLen) :
                        Cardinality({i \in DOMAIN q : q[i] \in Specials}) = 1}}
        \cup {List(<<SupElem, AlphaElem>>)}

\* the values a JSON text can decode to
JsonVals ==
    {None, EmptyStr, BadText, PyInt(0), PyInt(1), Dict(0), Dict(1)}
        \cup IdLists \cup MixedLists

WInputs == {None, EmptyStr, BadText} \cup {Dumps(v) : v \in JsonVals}

Limits == {None} \cup {PyInt(n) : n \in 0..MaxLen}

(***************************************************************************)
(* Actions on the gallery_widget form field.                               *)
(***************************************************************************)
WConstruct(required, max) ==
    /\ wfield' = WFormField(required, max)
    /\ last' = [op |-> "w_init", in |-> max]
    /\ UNCHANGED <<rows, gfield, ginst, winst, col, assigned, view, held>>

\* the widgets a program can hand to the field: GalleryWidgets with either
\* URL missing, empty or given, fetching disabled or not, and other widgets
UploadUrls == {NoneUrl, EmptyUrl, UrlName("custom", "upload")}
FetchUrls == {NoneUrl, EmptyUrl, UrlName("custom", "fetch")}

Widgets ==
    {Widget("GalleryWidget", u, f, d) : u \in UploadUrls, f \in FetchUrls, d \in BOOLEAN}
        \cup {Widget("Textarea", NoUrlAttr, NoUrlAttr, FALSE)}

\* GalleryFormField(max_number_of_images=..., target_model=..., model_field=...,
\* widget=...): Field.__init__ assigns the widget
WConstructWith(required, max, target_model, model_field, widget) ==
    /\ wfield' = [WFormFieldFor(required, max, target_model, model_field)
                    EXCEPT !.widget = WidgetSetter(
                        WFormFieldFor(required, max, target_model, model_field), widget)]
    /\ last' = [op |-> "w_init_widget", in |-> max, widget |-> widget]
    /\ UNCHANGED <<rows, gfield, ginst, winst, col, assigned, view, held>>

\* what a program assigns to max_number_of_images: None, 0, a limit, -1
MaxValues == Limits \cup {PyInt(-1)}

\* field.max_number_of_images = value
SetMaxTo(value) ==
    /\ Truthy(value) => Len(wfield.validators) < MaxAssignments
    /\ wfield' = IF SetMaxRaises(value) THEN wfield ELSE SetMax(wfield, value)
    /\ last' = [op |-> "set_max", in |-> value,
                exc |-> IF SetMaxRaises(value) THEN "TypeError" ELSE "none"]
    /\ UNCHANGED <<rows, gfield, ginst, winst, col, assigned, view, held>>

\* field.widget = widget
SetWidget(widget) ==
    /\ wfield' = [wfield EXCEPT !.widget = WidgetSetter(wfield, widget)]
    /\ last' = [op |-> "set_widget", in |-> None, widget |-> widget]
    /\ UNCHANGED <<rows, gfield, ginst, winst, col, assigned, view, held>>

\* field.clean(value): to_python, validate, run_validators
WCleanValue(value) ==
    /\ last' = [op |-> "w_clean", in |-> value, py |-> ToPython(value),
                out |-> WClean(wfield, value)]
    /\ UNCHANGED <<rows, wfield, gfield, ginst, winst, col, assigned, view, held>>

(***************************************************************************)
(* GalleryField.formfield() of both variants.  kwargs is a record [has,    *)
(* required]: has tells whether the caller passed 'required'.              *)
(***************************************************************************)
NoKwargs == [has |-> FALSE, required |-> FALSE]
Kwargs(required) == [has |-> TRUE, required |-> required]

\* django.db.models.Field.formfield: defaults = {'required': not self.blank},
\* then defaults.update(kwargs); the value of 'required' the form class gets
ModelFieldFormfield(blank, kwargs) ==
    IF kwargs.has THEN kwargs.required ELSE ~blank

\* a formfield() that passes kwargs on as they came
GFormfieldKeepsKwargs(blank, kwargs) == ModelFieldFormfield(blank, kwargs)

\* gallery: kwargs.update({"required": True})
GGalleryFieldFormfield(blank, kwargs) ==
    ModelFieldFormfield(blank, Kwargs(TRUE))

\* gallery_widget: defaults = {"required": True, ...}; defaults.update(kwargs)
WGalleryFieldFormfield(blank, kwargs) ==
    ModelFieldFormfield(blank, IF kwargs.has THEN kwargs ELSE Kwargs(TRUE))

(***************************************************************************)
(* gallery: GalleryFormField, a MultiValueField of two JSON sub-fields     *)
(* (the uploads and the deletions).                                        *)
(***************************************************************************)
NumFields == 2

\* GalleryFormField.__init__: fields[0] takes the field's required, fields[1]
\* is never required; require_all_fields is False
GFormField(required, disabled) ==
    [required |-> required,
     disabled |-> disabled,
     fields |-> <<[required |-> required, disabled |-> disabled],
                  [required |-> FALSE, disabled |-> disabled]>>]

\* a compressed value: a str (UnicodeWithAttr) with its deleted_files attribute
GReturn(v, d) == [exc |-> "none", codes |-> {}, val |-> v, deleted |-> d, sub |-> 0]
GRaise(e, codes, n) == [exc |-> e, codes |-> codes, val |-> None, deleted |-> None, sub |-> n]

\* GalleryFormField.compress
Compress(data_list) ==
    LET dl == IF data_list = <<>> THEN <<EmptyStr, EmptyStr>> ELSE data_list
    IN  IF Len(dl) < 2 THEN GRaise("IndexError", {}, 0)
        ELSE GReturn(Dumps(dl[1]), dl[2])

\* forms.JSONField.clean of a sub-field: to_python, then validate
SubFieldClean(f, value) ==
    LET py == IF f.disabled THEN Return(value) ELSE JsonToPython(value)
    IN  IF py.exc # "none" THEN py
        ELSE IF Validate(f, py.val) THEN Raise("ValidationError", {"required"})
        ELSE py

IsListOrTuple(v) == v.enc = 0 /\ v.k \in {"list", "tuple"}

\* the value clean works on: a disabled field decompresses a value that is
\* not a list (dec is what widget.decompress returns)
CleanedValue(field, value, dec) ==
    IF field.disabled /\ ~(value.enc = 0 /\ value.k = "list") THEN dec ELSE value

\* an emptiness test that forgets the uploads part
UploadsEmptyOnlyMissing(value) == ~Truthy(value)

\* the emptiness test of clean: not value or value[0] in self.empty_values
UploadsEmpty(value) == ~Truthy(value) \/ InEmptyValues(value.items[1])

\* GalleryFormField.clean; out.sub counts the sub-fields that were cleaned
GClean(field, value0, dec) ==
    LET value == CleanedValue(field, value0, dec)
        part(i) == IF i <= Len(value.items) THEN value.items[i] ELSE None
        sub(i) == SubFieldClean(field.fields[i], part(i))
        codes == UNION {sub(i).codes : i \in 1..NumFields}
        out == Compress([i \in 1..NumFields |-> sub(i).val])
    IN  IF Truthy(value) /\ ~IsListOrTuple(value)
            THEN GRaise("ValidationError", {"invalid"}, 0)
        ELSE IF UploadsEmpty(value)
            THEN IF field.required THEN GRaise("ValidationError", {"required"}, 0)
                 ELSE IF ~Truthy(value) THEN Compress(<<>>)
                 ELSE Compress(value.items)
        ELSE IF \E i \in 1..NumFields : sub(i).exc # "none"
            THEN GRaise("ValidationError", codes, NumFields)
        ELSE [out EXCEPT !.sub = NumFields]

\* the parts of a submission: None, '', 'abc', JSON texts, an empty list
GParts ==
    {None, EmptyStr, BadText, List(<<>>), Dumps(None),
     Dumps(List(<<>>)), Dumps(List(<<IdElem(1)>>)), Dumps(List(<<IdElem(2), IdElem(1)>>))}

\* what clean is handed: nothing, a value that is no list, a list or a tuple of parts
GValues ==
    {None, EmptyStr, PyInt(0), BadText, PyInt(1), Dumps(List(<<IdElem(1)>>))}
        \cup {List(s) : s \in SeqsUpTo(GParts, NumFields)}
        \cup {Tuple(s) : s \in SeqsUpTo({EmptyStr, Dumps(List(<<IdElem(1)>>))}, NumFields)}

\* widget.decompress is not part of the sources: when it is called any of
\* these but None may come back (None stands for "not called")
DecompressResults ==
    {None, List(<<>>), List(<<EmptyStr, EmptyStr>>),
     List(<<Dumps(List(<<IdElem(1)>>)), EmptyStr>>), BadText}

GConstruct(required, disabled) ==
    /\ gfield' = GFormField(required, disabled)
    /\ last' = [op |-> "g_init", in |-> None]
    /\ UNCHANGED <<rows, wfield, ginst, winst, col, assigned, view, held>>

\* gallery GalleryField(blank=..., null=...).formfield(**kwargs)
GFormfield(blank, null, kwargs) ==
    /\ gfield' = GFormField(GGalleryFieldFormfield(blank, kwargs), FALSE)
    /\ last' = [op |-> "g_formfield", in |-> None, kwargs |-> kwargs,
                blank |-> blank, null |-> null]
    /\ UNCHANGED <<rows, wfield, ginst, winst, col, assigned, view, held>>

\* gallery_widget GalleryField(blank=..., null=...).formfield(**kwargs)
WFormfield(blank, null, kwargs) ==
    /\ wfield' = WFormField(WGalleryFieldFormfield(blank, kwargs), None)
    /\ last' = [op |-> "w_formfield", in |-> None, kwargs |-> kwargs,
                blank |-> blank, null |-> null]
    /\ UNCHANGED <<rows, gfield, ginst, winst, col, assigned, view, held>>

GCleanValue(value, dec) ==
    /\ dec # None <=> gfield.disabled /\ ~(value.enc = 0 /\ value.k = "list")
    /\ last' = [op |-> "g_clean", in |-> value,
                cleaned |-> CleanedValue(gfield, value, dec),
                out |-> GClean(gfield, value, dec)]
    /\ UNCHANGED <<rows, wfield, gfield, ginst, winst, col, assigned, view, held>>

(***************************************************************************)
(* gallery: GalleryField.save_form_data.  The instance holds the field's   *)
(* value and the two bookkeeping attributes; Unset is a missing attribute. *)
(***************************************************************************)

\* the compressed value a form hands over: a str with deleted_files
Data(o) == [val |-> o.val, deleted_files |-> o.deleted]

\* a save_form_data that reads the old value after it set the new one
GSaveFormDataLate(inst, data) ==
    LET saved == [inst EXCEPT !.field = data]
    IN  [saved EXCEPT !.old = saved.field, !.deleted = data.deleted_files]

\* GalleryField.save_form_data
GSaveFormData(inst, data) ==
    LET old_data == inst.field
        recorded == [inst EXCEPT !.old = old_data, !.deleted = data.deleted_files]
    IN  [recorded EXCEPT !.field = data]

\* cleaned values of a few submissions
SaveData ==
    {Data(Compress(<<a, b>>)) :
        a \in {EmptyStr, None, List(<<IdElem(1)>>), List(<<IdElem(2), IdElem(1)>>)},
        b \in {EmptyStr, None, List(<<IdElem(2)>>)}}

NewInstance ==
    /\ ginst' = [field |-> None, old |-> Unset, deleted |-> Unset]
    /\ last' = [op |-> "new_instance", in |-> None]
    /\ UNCHANGED <<rows, wfield, gfield, winst, col, assigned, view, held>>

SaveFormData(data) ==
    /\ ginst' = GSaveFormData(ginst, data)
    /\ last' = [op |-> "save_form_data", in |-> data]
    /\ UNCHANGED <<rows, wfield, gfield, winst, col, assigned, view, held>>

(***************************************************************************)
(* gallery_widget: GalleryDescriptor and GalleryImages.  winst is the      *)
(* instance's __dict__ entry of the field: the raw value (None or a list)  *)
(* or a GalleryImages, a list that also keeps _value.                      *)
(***************************************************************************)
\* GalleryImages.__init__
GalleryImages(field_value0) ==
    LET field_value == IF Truthy(field_value0) THEN field_value0 ELSE List(<<>>)
    IN  [k |-> "GalleryImages", n |-> 0, items |-> field_value.items, enc |-> 0,
         value |-> (IF Truthy(field_value) THEN field_value ELSE List(<<>>)).items]

\* GalleryDescriptor.__set__: the new __dict__ entry
DescriptorSet(value) == value

\* a __get__ that wraps lists only and hands None on
DescriptorGetKeepsNone(image_list) ==
    IF image_list.k = "list" THEN GalleryImages(image_list) ELSE image_list

\* a __get__ that wraps the __dict__ entry on every read
DescriptorBuildsAlways(image_list) == TRUE

\* GalleryDescriptor.__get__: whether the read constructs a GalleryImages
\* (not isinstance(image_list, GalleryImages))
DescriptorBuilds(image_list) == image_list.k # "GalleryImages"

\* GalleryDescriptor.__get__: the __dict__ entry after the read, which is
\* also what the read returns
DescriptorGet(image_list) ==
    IF DescriptorBuilds(image_list) THEN GalleryImages(image_list) ELSE image_list

\* Case(*[When(pk=x, then=i) ...]): the position of the first When that matches
CasePosition(pks, pk) ==
    CHOOSE i \in DOMAIN pks :
        IntOf(pks[i]) = pk /\ \A j \in 1..(i - 1) : IntOf(pks[j]) # pk

\* queryset.filter(pk__in=pks), in the table's order
FilterPkIn(q, pks) == SelectSeq(q, LAMBDA r : \E i \in DOMAIN pks : IntOf(pks[i]) = r)

\* queryset.order_by(Case(...)) of rows that all match a When
OrderByCase(q, pks) ==
    IF q = <<>> THEN q
    ELSE CHOOSE s \in [DOMAIN q -> Range(q)] :
            /\ Range(s) = Range(q)
            /\ \A i \in DOMAIN s : \A j \in DOMAIN s :
                    i < j => CasePosition(pks, s[i]) <= CasePosition(pks, s[j])

\* an objects that filters and does not order
GalleryImagesObjectsUnordered(images) == FilterPkIn(rows, images.value)

\* GalleryImages.objects: the pks of the rows the queryset yields
GalleryImagesObjects(images) == OrderByCase(FilterPkIn(rows, images.value), images.value)

\* object identity: held is [obj, same]; obj is the GalleryImages the last
\* read returned (None before any read) and same tells whether that object
\* is the one now stored in the instance's __dict__
NothingHeld == [obj |-> None, same |-> FALSE]

\* the __dict__ entry was replaced by another object
Replaced(h) == [h EXCEPT !.same = FALSE]

\* instance.gallery = value, value a raw value: None or a list
Assign(value) ==
    /\ winst' = DescriptorSet(value)
    /\ assigned' = value
    /\ held' = Replaced(held)
    /\ last' = [op |-> "set", in |-> value]
    /\ UNCHANGED <<rows, wfield, gfield, ginst, col, view>>

\* instance.gallery = images, images the GalleryImages an earlier read returned
AssignHeld ==
    /\ held.obj # None
    /\ winst' = DescriptorSet(held.obj)
    /\ assigned' = held.obj
    /\ held' = [held EXCEPT !.same = TRUE]
    /\ last' = [op |-> "set", in |-> held.obj]
    /\ UNCHANGED <<rows, wfield, gfield, ginst, col, view>>

\* in-place changes of a GalleryImages, the methods it inherits from list
ListAppend(images, e) == [images EXCEPT !.items = Append(@, e)]

\* list.remove(e): the first occurrence goes
ListRemove(images, e) ==
    LET at == CHOOSE i \in DOMAIN images.items :
                    images.items[i] = e /\ \A j \in 1..(i - 1) : images.items[j] # e
    IN  [images EXCEPT !.items = [i \in 1..(Len(@) - 1) |-> IF i < at THEN @[i] ELSE @[i + 1]]]

ListReverse(images) ==
    [images EXCEPT !.items = [i \in DOMAIN @ |-> @[Len(@) + 1 - i]]]

Mutations ==
    {[m |-> "append", e |-> e] : e \in IdElems}
        \cup {[m |-> "remove", e |-> e] : e \in IdElems}
        \cup {[m |-> "reverse", e |-> IdElem(1)]}

ApplyMutation(images, mu) ==
    CASE mu.m = "append" -> ListAppend(images, mu.e)
      [] mu.m = "remove" -> ListRemove(images, mu.e)
      [] mu.m = "reverse" -> ListReverse(images)

\* the program changes, in place, the GalleryImages it got from its last
\* read; the __dict__ entry changes with it when it is that object
MutateHeld(mu) ==
    /\ held.obj # None
    /\ mu.m = "append" => Len(held.obj.items) < MaxLen
    /\ mu.m = "remove" => mu.e \in Range(held.obj.items)
    /\ held' = [held EXCEPT !.obj = ApplyMutation(@, mu)]
    /\ winst' = IF held.same THEN ApplyMutation(held.obj, mu) ELSE winst
    /\ last' = [op |-> "mutate", in |-> None, mu |-> mu]
    /\ UNCHANGED <<rows, wfield, gfield, ginst, col, assigned, view>>

\* instance.gallery
Read ==
    /\ winst' = DescriptorGet(winst)
    /\ held' = [obj |-> DescriptorGet(winst), same |-> TRUE]
    /\ last' = [op |-> "get", in |-> None, ret |-> DescriptorGet(winst),
                built |-> DescriptorBuilds(winst),
                again |-> held.same /\ ~DescriptorBuilds(winst)]
    /\ UNCHANGED <<rows, wfield, gfield, ginst, col, assigned, view>>

\* instance.save(): pre_save reads the attribute, the list is written as JSON
Save ==
    /\ winst' = DescriptorGet(winst)
    /\ col' = List(DescriptorGet(winst).items)
    /\ last' = [op |-> "save", in |-> None]
    /\ UNCHANGED <<rows, wfield, gfield, ginst, assigned, view, held>>

\* the instance is loaded from its row: the column's value is set
Load ==
    /\ winst' = DescriptorSet(col)
    /\ assigned' = col
    /\ held' = Replaced(held)
    /\ last' = [op |-> "load", in |-> None]
    /\ UNCHANGED <<rows, wfield, gfield, ginst, col, view>>

\* list(instance.gallery.objects)
ReadObjects ==
    /\ winst' = DescriptorGet(winst)
    /\ last' = [op |-> "objects", in |-> None,
                ret |-> GalleryImagesObjects(DescriptorGet(winst))]
    /\ UNCHANGED <<rows, wfield, gfield, ginst, col, assigned, view, held>>

(***************************************************************************)
(* gallery: the listing view (BaseListViewMixin).  view holds the class    *)
(* attributes target_model and crop_url_name.                              *)
(***************************************************************************)
ViewReturn(files) == [exc |-> "none", files |-> files]
ViewRaise(e) == [exc |-> e, files |-> <<>>]

TargetModels == {"None", "default", "custom"}
CropUrlNames == {"None", "default", "custom", "unresolvable"}

\* BaseImageModelMixin.setup_model_and_image_field: the exception it raises
SetupModelAndImageField(cfg) ==
    IF cfg.target_model = "None" THEN "ImproperlyConfigured"
    ELSE IF cfg.crop_url_name = "None" THEN "ImproperlyConfigured"
    ELSE IF cfg.crop_url_name = "unresolvable" THEN "ImproperlyConfigured"
    ELSE IF cfg.target_model # "default" THEN "ImproperlyConfigured"
    ELSE "none"

\* BaseListViewMixin.get_and_validate_pks_from_request
GetAndValidatePks(pks) ==
    IF ~Truthy(pks) THEN Raise("SuspiciousOperation", {})
    ELSE IF ~IsJsonText(pks) THEN Raise("SuspiciousOperation", {})
    ELSE IF ~(Loads(pks).k = "list" /\ Loads(pks).enc = 0)
        THEN Raise("SuspiciousOperation", {})
    ELSE IF \E i \in DOMAIN pks.items : ~IsDigit(pks.items[i])
        THEN Raise("SuspiciousOperation", {})
    ELSE Return(Loads(pks))

\* a get_queryset without the ordering
GetQuerysetUnordered(pks) == FilterPkIn(rows, pks)

\* BaseListViewMixin.get_queryset with get_ordering: the pks of the rows (the
\* database filters before it orders)
GetQueryset(pks) == OrderByCase(FilterPkIn(rows, pks), pks)

\* BaseImageModelMixin.get_serialized_image: the entry of a row
GetSerializedImage(pk) == [pk |-> pk]

\* BaseListViewMixin.get_context_data: the files of the response
GetContextData(pks) ==
    [i \in DOMAIN GetQueryset(pks) |-> GetSerializedImage(GetQueryset(pks)[i])]

\* a GET request to the view: setup, then get
ListView(cfg, request) ==
    LET pks == GetAndValidatePks(request.pks)
    IN  IF ~request.xhr THEN ViewRaise("PermissionDenied")
        ELSE IF SetupModelAndImageField(cfg) # "none"
            THEN ViewRaise(SetupModelAndImageField(cfg))
        ELSE IF pks.exc # "none" THEN ViewRaise(pks.exc)
        ELSE IF \E i \in DOMAIN pks.val.items : ~IntOk(pks.val.items[i])
            THEN ViewRaise("ValueError")
        ELSE ViewReturn(GetContextData(pks.val.items))

\* the pks query parameter: missing, '', 'abc' or a JSON text
PksParams == {None, EmptyStr, BadText} \cup {Dumps(v) : v \in JsonVals}

Requests ==
    {[xhr |-> TRUE, pks |-> p] : p \in PksParams}
        \cup {[xhr |-> FALSE, pks |-> p] : p \in {None, Dumps(List(<<IdElem(1)>>))}}

\* a view class with these attributes is used
Configure(target_model, crop_url_name) ==
    /\ view' = [target_model |-> target_model, crop_url_name |-> crop_url_name]
    /\ last' = [op |-> "configure", in |-> None]
    /\ UNCHANGED <<rows, wfield, gfield, ginst, winst, col, assigned, held>>

ListRequest(request) ==
    /\ last' = [op |-> "list", in |-> None, request |-> request,
                out |-> ListView(view, request)]
    /\ UNCHANGED <<rows, wfield, gfield, ginst, winst, col, assigned, view, held>>

(***************************************************************************)
(* gallery: setup() of the three views built on BaseImageModelMixin (the   *)
(* upload, list and crop views).  A request is a record [header, pks,      *)
(* cropped]: the X-Requested-With header, the 'pks' query parameter and    *)
(* the kind of 'cropped_result' it posts.  The outcome of setup is the     *)
(* exception it raises and ran, the steps that ran after the header check. *)
(***************************************************************************)
ViewKinds == {"upload", "list", "crop"}

\* request.META.get('HTTP_X_REQUESTED_WITH'): missing, another value, or the
\* one the views accept
Headers == {"missing", "fetch", "XMLHttpRequest"}

\* request.POST["cropped_result"]: missing, no JSON text, JSON without the
\* numbers of a crop box, or a crop box
CroppedResults == {"missing", "badjson", "badformat", "ok"}

SetupDone(ran) == [exc |-> "none", ran |-> ran]
SetupRaise(e, ran) == [exc |-> e, ran |-> ran]

\* BaseCropViewMixin.get_and_validate_cropped_result_from_request: the
\* exception it raises
GetAndValidateCroppedResult(cropped) ==
    IF cropped = "ok" THEN "none" ELSE "SuspiciousOperation"

\* a setup that configures the model before it looks at the header
SetupConfigFirst(cfg, request) ==
    IF SetupModelAndImageField(cfg) # "none"
        THEN SetupRaise(SetupModelAndImageField(cfg), <<"setup_model_and_image_field">>)
    ELSE IF request.header # "XMLHttpRequest"
        THEN SetupRaise("PermissionDenied", <<"setup_model_and_image_field">>)
    ELSE SetupDone(<<"setup_model_and_image_field", "get_and_validate_preview_size">>)

\* BaseImageModelMixin.setup
BaseImageModelMixinSetup(cfg, request) ==
    IF request.header # "XMLHttpRequest" THEN SetupRaise("PermissionDenied", <<>>)
    ELSE IF SetupModelAndImageField(cfg) # "none"
        THEN SetupRaise(SetupModelAndImageField(cfg), <<"setup_model_and_image_field">>)
    ELSE SetupDone(<<"setup_model_and_image_field", "get_and_validate_preview_size">>)

\* ImageFormViewMixin.setup: super().setup(), then get_form_class()
ImageFormViewMixinSetup(cfg, request) ==
    LET base == BaseImageModelMixinSetup(cfg, request)
    IN  IF base.exc # "none" THEN base
        ELSE SetupDone(Append(base.ran, "get_form_class"))

\* BaseCreateMixin.setup: super().setup()
BaseCreateMixinSetup(cfg, request) == ImageFormViewMixinSetup(cfg, request)

\* BaseListViewMixin.setup: super().setup(), then the pks are read
BaseListViewMixinSetup(cfg, request) ==
    LET base == BaseImageModelMixinSetup(cfg, request)
        ran == Append(base.ran, "get_and_validate_pks")
    IN  IF base.exc # "none" THEN base
        ELSE IF GetAndValidatePks(request.pks).exc # "none"
            THEN SetupRaise(GetAndValidatePks(request.pks).exc, ran)
        ELSE SetupDone(ran)

\* BaseCropViewMixin.setup: super().setup(), then the crop box is read
BaseCropViewMixinSetup(cfg, request) ==
    LET base == ImageFormViewMixinSetup(cfg, request)
        ran == Append(base.ran, "get_and_validate_cropped_result")
    IN  IF base.exc # "none" THEN base
        ELSE IF GetAndValidateCroppedResult(request.cropped) # "none"
            THEN SetupRaise(GetAndValidateCroppedResult(request.cropped), ran)
        ELSE SetupDone(ran)

\* view.setup(request) of a view of the given kind
ViewSetup(kind, cfg, request) ==
    CASE kind = "upload" -> BaseCreateMixinSetup(cfg, request)
      [] kind = "list" -> BaseListViewMixinSetup(cfg, request)
      [] kind = "crop" -> BaseCropViewMixinSetup(cfg, request)

SetupPksParams ==
    {None, EmptyStr, BadText, Dumps(PyInt(1)), Dumps(List(<<IdElem(1)>>)),
     Dumps(List(<<IdElem(1), AlphaElem>>))}

SetupRequests ==
    {[header |-> h, pks |-> p, cropped |-> c] :
        h \in Headers, p \in SetupPksParams, c \in CroppedResults}

SetupRequest(kind, request) ==
    /\ last' = [op |-> "setup", in |-> None, kind |-> kind, request |-> request,
                out |-> ViewSetup(kind, view, request)]
    /\ UNCHANGED <<rows, wfield, gfield, ginst, winst, col, assigned, view, held>>

(***************************************************************************)
(* gallery: the 'pks' query parameter of the listing view.  The parameter  *)
(* is a text that was URL-encoded quoting times; Django's QueryDict has    *)
(* decoded it once when the view reads it.                                 *)
(***************************************************************************)
\* how many times the client URL-encoded the JSON text
QuoteLevels == 0..3

\* urllib.parse.unquote of a text that is still encoded level times: one
\* encoding is taken away
Unquote(level) == IF level > 0 THEN level - 1 ELSE 0

\* request.GET.get("pks"): the encodings left after the QueryDict decoded once
QueryDictGet(quoting) == Unquote(quoting)

\* whether json.loads accepts the text: a text that is still URL-encoded
\* starts with %5B or %22 and is no JSON
IsJsonTextAt(level, pks) == level = 0 /\ IsJsonText(pks)

\* a list element that is a float (1.5) or a bool (True)
FloatElem == [t |-> "float", n |-> 1]
BoolElem == [t |-> "bool", n |-> 1]

\* BaseListViewMixin.get_and_validate_pks_from_request on a request whose
\* pks was URL-encoded quoting times
GetAndValidatePksFromRequest(quoting, pks) ==
    IF ~Truthy(pks) THEN Raise("SuspiciousOperation", {})
    ELSE IF ~IsJsonTextAt(Unquote(QueryDictGet(quoting)), pks)
        THEN Raise("SuspiciousOperation", {})
    ELSE GetAndValidatePks(pks)

PksElems ==
    {IdElem(0), IdElem(1), DecElem(2), SupElem, AlphaElem, NegElem, FloatElem, BoolElem}

PksTexts ==
    {None, EmptyStr, BadText}
        \cup {Dumps(v) : v \in {None, EmptyStr, BadText, PyInt(0), PyInt(1), Dict(0), Dict(1)}}
        \cup {Dumps(List(q)) : q \in SeqsUpTo(PksElems, MaxLen)}

\* a GET request with this pks reaches get_and_validate_pks_from_request
ParsePks(quoting, pks) ==
    /\ last' = [op |-> "pks", in |-> pks, quoting |-> quoting,
                out |-> GetAndValidatePksFromRequest(quoting, pks)]
    /\ UNCHANGED <<rows, wfield, gfield, ginst, winst, col, assigned, view, held>>

Init ==
    /\ rows = <<>>
    /\ wfield = WFormField(TRUE, None)
    /\ gfield = GFormField(TRUE, FALSE)
    /\ ginst = [field |-> None, old |-> Unset, deleted |-> Unset]
    /\ winst = None
    /\ col = None
    /\ assigned = None
    /\ view = [target_model |-> "default", crop_url_name |-> "default"]
    /\ held = NothingHeld
    /\ last = [op |-> "init", in |-> None]

\* the gallery_widget form field over the image table
Next ==
    \/ \E id \in Ids : CreateRow(id)
    \/ \E id \in Ids : DeleteRow(id)
    \/ \E r \in BOOLEAN, m \in Limits : WConstruct(r, m)
    \/ \E v \in WInputs : WCleanValue(v)

Spec == Init /\ [][Next]_vars

\* the gallery form field and formfield() of both model fields
NextGallery ==
    \/ \E r \in BOOLEAN, d \in BOOLEAN : GConstruct(r, d)
    \/ \E b \in BOOLEAN, n \in BOOLEAN, kw \in {NoKwargs, Kwargs(TRUE), Kwargs(FALSE)} :
            GFormfield(b, n, kw)
    \/ \E b \in BOOLEAN, n \in BOOLEAN, kw \in {NoKwargs, Kwargs(TRUE), Kwargs(FALSE)} :
            WFormfield(b, n, kw)
    \/ \E v \in GValues, dec \in DecompressResults : GCleanValue(v, dec)

SpecGallery == Init /\ [][NextGallery]_vars

\* save_form_data on an instance of a model with a gallery GalleryField
NextSave ==
    \/ NewInstance
    \/ \E d \in SaveData : SaveFormData(d)

SpecSave == Init /\ [][NextSave]_vars

\* the descriptor: assignments, reads, saves and loads of an instance
NextDescriptor ==
    \/ \E v \in {None} \cup IdLists : Assign(v)
    \/ Read
    \/ Save
    \/ Load

SpecDescriptor == Init /\ [][NextDescriptor]_vars

\* raw values of the attribute: null, an empty list, lists of ids
RawValues ==
    {None, List(<<>>), List(<<IdElem(1)>>), List(<<IdElem(2), IdElem(1)>>)}

\* the identity of the proxy: assignments of raw values and of proxies,
\* reads, and changes made through the proxy a read returned
NextProxy ==
    \/ \E v \in RawValues : Assign(v)
    \/ AssignHeld
    \/ Read
    \/ \E mu \in Mutations : MutateHeld(mu)

SpecProxy == Init /\ [][NextProxy]_vars

\* GalleryImages.objects of a proxy that was changed in place
NextMutate ==
    \/ \E id \in Ids : CreateRow(id)
    \/ \E v \in RawValues : Assign(v)
    \/ Read
    \/ \E mu \in Mutations : MutateHeld(mu)
    \/ ReadObjects

SpecMutate == Init /\ [][NextMutate]_vars

\* GalleryImages.objects over the image table
NextObjects ==
    \/ \E id \in Ids : CreateRow(id)
    \/ \E id \in Ids : DeleteRow(id)
    \/ \E v \in {None} \cup IdLists : Assign(v)
    \/ ReadObjects

SpecObjects == Init /\ [][NextObjects]_vars

\* the listing view over the image table
NextView ==
    \/ \E id \in Ids : CreateRow(id)
    \/ \E id \in Ids : DeleteRow(id)
    \/ \E t \in TargetModels, c \in CropUrlNames : Configure(t, c)
    \/ \E r \in Requests : ListRequest(r)

SpecView == Init /\ [][NextView]_vars

\* setup() of the upload, list and crop views
NextSetup ==
    \/ \E t \in TargetModels, c \in CropUrlNames : Configure(t, c)
    \/ \E k \in ViewKinds, r \in SetupRequests : SetupRequest(k, r)

SpecSetup == Init /\ [][NextSetup]_vars

\* the parsing of the pks parameter
NextPks ==
    \E q \in QuoteLevels, p \in PksTexts : ParsePks(q, p)

SpecPks == Init /\ [][NextPks]_vars

\* widgets assigned to the gallery_widget form field
NextWidget ==
    \/ \E m \in {None, PyInt(1)}, t \in {"None"} \cup ImageModels,
          f \in {"None", "MyGallery.images"}, w \in Widgets :
            WConstructWith(TRUE, m, t, f, w)
    \/ \E w \in Widgets : SetWidget(w)

SpecWidget == Init /\ [][NextWidget]_vars

\* assignments to max_number_of_images and the validation that follows
NextMax ==
    \/ \E id \in Ids : CreateRow(id)
    \/ \E r \in BOOLEAN : WConstruct(r, None)
    \/ \E v \in MaxValues : SetMaxTo(v)
    \/ \E l \in IdLists : WCleanValue(Dumps(l))

SpecMax == Init /\ [][NextMax]_vars

(***************************************************************************)
(* Properties.                                                             *)
(***************************************************************************)
\* a non-negative integer written in decimal digits: 3 or "3"
IsId(e) == e.t \in {"int", "dec"} /\ e.n >= 0

IsIdList(v) == v.enc = 0 /\ v.k = "list" /\ \A i \in DOMAIN v.items : IsId(v.items[i])

HasRow(e) == e.n \in RowIds

Invalid(o) == o.exc = "ValidationError" /\ "invalid" \in o.codes

\* C1: to_python of the JSON text of a list of ids returns, without an error,
\* the list of those ids that have a row, in the order given: nothing is
\* added, the result is no longer than the input, and it is the input itself
\* when every id has a row.
C1_ToPythonKeepsExistingIdsInOrder ==
    (last.op = "w_clean" /\ last.in.enc = 1 /\ IsIdList(Loads(last.in))) =>
        LET given == Loads(last.in).items
            got == last.py.val
        IN  /\ last.py.exc = "none"
            /\ got.k = "list" /\ got.enc = 0
            /\ got.items = SelectSeq(given, HasRow)
            /\ Len(got.items) <= Len(given)
            /\ (\A i \in DOMAIN given : HasRow(given[i])) => got = Loads(last.in)

\* a list of two different ids of which one has a row: the other is dropped
C1_Witness ==
    /\ last.op = "w_clean" /\ last.in.enc = 1 /\ IsIdList(Loads(last.in))
    /\ Len(Loads(last.in).items) = 2
    /\ last.py.exc = "none" /\ Len(last.py.val.items) = 1

\* C2: on a field constructed with max_number_of_images = N >= 1, a list of
\* ids fails validation with the code max_number_of_images exactly when it
\* has more than N entries (stated for the lists whose ids all have a row,
\* where all the submitted entries are counted).
C2_MoreThanMaxFailsValidation ==
    (/\ last.op = "w_clean" /\ last.in.enc = 1 /\ IsIdList(Loads(last.in))
     /\ \A i \in DOMAIN last.in.items : HasRow(last.in.items[i])
     /\ wfield.max.k = "int" /\ wfield.max.n >= 1) =>
        ("max_number_of_images" \in last.out.codes
            <=> Len(last.in.items) > wfield.max.n)

\* C9: a payload that is not a list of ids fails with the code invalid: in
\* to_python every decoded value that is not empty and not a list, and every
\* list with an element that is not a non-negative integer; in the gallery
\* clean every value that is not empty and neither a list nor a tuple; an
\* empty payload never gives the code invalid.
C9_NotAListOfIdsIsInvalid ==
    /\ (last.op = "w_clean" /\ last.in.enc = 1) =>
            LET d == Loads(last.in)
            IN  /\ (~InEmptyValues(d) /\ ~(d.k = "list" /\ d.enc = 0)) => Invalid(last.py)
                /\ (d.k = "list" /\ d.enc = 0 /\ ~IsIdList(d)) => Invalid(last.py)
                /\ InEmptyValues(d) => "invalid" \notin last.out.codes
    /\ (last.op = "w_clean" /\ InEmptyValues(last.in)) => "invalid" \notin last.out.codes
    /\ (last.op = "g_clean" /\ last.cleaned = last.in) =>
            /\ (Truthy(last.in) /\ ~IsListOrTuple(last.in)) => Invalid(last.out)
            /\ ~Truthy(last.in) => "invalid" \notin last.out.codes

\* what clean treats as an empty submission: an empty value, or a list or
\* tuple whose first part (the uploads) is an empty value
EmptySubmission(v) ==
    \/ InEmptyValues(v)
    \/ IsListOrTuple(v) /\ v.items # <<>> /\ InEmptyValues(v.items[1])

\* C3: on a required field, clean of an empty submission raises
\* ValidationError with the code required, whatever the deletions part is,
\* and no sub-field is cleaned.
C3_RequiredEmptySubmissionRaisesRequired ==
    (/\ last.op = "g_clean" /\ gfield.required
     /\ last.cleaned = last.in /\ EmptySubmission(last.in)) =>
        /\ last.out.exc = "ValidationError"
        /\ last.out.codes = {"required"}
        /\ last.out.sub = 0

\* the uploads part is empty and the deletions part names an image
C3_Witness ==
    /\ last.op = "g_clean" /\ gfield.required /\ last.cleaned = last.in
    /\ last.in = List(<<EmptyStr, Dumps(List(<<IdElem(1)>>))>>)
    /\ last.out.exc = "ValidationError"

\* C4: on a field that is not required, clean of an empty submission raises
\* nothing and returns an empty value (falsy, one of the empty values) whose
\* deleted_files is the submitted deletions part, empty when there is none.
C4_NonRequiredEmptySubmissionIsEmpty ==
    (/\ last.op = "g_clean" /\ ~gfield.required
     /\ last.cleaned = last.in /\ EmptySubmission(last.in)) =>
        /\ last.out.exc = "none"
        /\ ~Truthy(last.out.val) /\ InEmptyValues(last.out.val)
        /\ last.out.deleted =
                IF IsListOrTuple(last.in) /\ Len(last.in.items) >= 2
                THEN last.in.items[2] ELSE EmptyStr

\* C5: formfield() called without 'required' gives a required form field in
\* both variants, whatever blank and null are.
C5_FormfieldRequiredByDefault ==
    /\ (last.op = "g_formfield" /\ ~last.kwargs.has) => gfield.required
    /\ (last.op = "w_formfield" /\ ~last.kwargs.has) => wfield.required

\* the form field of a model field with blank = True and null = True
C5_Witness ==
    /\ last.op \in {"g_formfield", "w_formfield"} /\ ~last.kwargs.has
    /\ last.blank /\ last.null
    /\ gfield.required /\ wfield.required

\* ret lists, each once, the pks of ids that have a row, in the order in
\* which the pks first occur in ids
InOrderOf(ret, ids) ==
    /\ \A i \in DOMAIN ret : \A j \in DOMAIN ret : i # j => ret[i] # ret[j]
    /\ Range(ret) = {ids[i].n : i \in DOMAIN ids} \cap RowIds
    /\ \A i \in DOMAIN ret : \A j \in DOMAIN ret :
            i < j => \E a \in DOMAIN ids :
                        /\ ids[a].n = ret[i]
                        /\ \A b \in DOMAIN ids : ids[b].n = ret[j] => a < b

\* C6: every read of the attribute returns a GalleryImages, never the raw
\* list and never None, whose elements are the most recently assigned or
\* loaded list in its order, and none when that value was None.
C6_ReadReturnsProxyOfLastValue ==
    last.op = "get" =>
        /\ last.ret.k = "GalleryImages"
        /\ last.ret.items = assigned.items
        /\ winst = last.ret

\* a read of a list that was saved and loaded again
C6_Witness ==
    /\ last.op = "get"
    /\ assigned = List(<<IdElem(2), IdElem(1)>>) /\ col = assigned
    /\ last.ret.items = <<IdElem(2), IdElem(1)>>

\* C7: objects yields the rows whose id is in the stored list, each once, in
\* the order of the stored list; ids without a row are absent.
C7_ObjectsInStoredOrder ==
    last.op = "objects" => InOrderOf(last.ret, assigned.items)

\* the rows were inserted as 1, 2 and the stored list is [2, 1]
C7_Witness ==
    /\ last.op = "objects" /\ rows = <<1, 2>>
    /\ assigned = List(<<IdElem(2), IdElem(1)>>) /\ last.ret = <<2, 1>>

\* C8: the listing view answers an XMLHttpRequest whose pks is a list of ids
\* with the entries of the rows named in pks, in the order of pks, each row
\* once, and no entry for a pk without a row.
C8_ListingInPksOrder ==
    (/\ last.op = "list" /\ last.request.xhr
     /\ SetupModelAndImageField(view) = "none"
     /\ last.request.pks.enc = 1 /\ IsIdList(Loads(last.request.pks))) =>
        /\ last.out.exc = "none"
        /\ InOrderOf([i \in DOMAIN last.out.files |-> last.out.files[i].pk],
                     last.request.pks.items)

\* the rows were inserted as 1, 2 and pks is [2, 1]
C8_Witness ==
    /\ last.op = "list" /\ rows = <<1, 2>>
    /\ last.request = [xhr |-> TRUE, pks |-> Dumps(List(<<IdElem(2), IdElem(1)>>))]
    /\ last.out.exc = "none" /\ Len(last.out.files) = 2 /\ last.out.files[1].pk = 2

\* C10: a call of save_form_data leaves the value the field had before the
\* call in the old-value attribute, data.deleted_files in the deleted-value
\* attribute, and data in the field.
C10_SaveFormDataRecordsThenOverwrites ==
    [][last'.op = "save_form_data" =>
            /\ ginst'.old = ginst.field
            /\ ginst'.deleted = last'.in.deleted_files
            /\ ginst'.field = last'.in]_vars

\* a second call: the old value is the first call's data, not the new one
C10_Witness ==
    /\ last.op = "save_form_data"
    /\ ginst.old \in SaveData /\ ginst.old # ginst.field
    /\ ginst.deleted = List(<<IdElem(2)>>) /\ ginst.field = last.in

\* C11: setup of a request whose X-Requested-With header is missing or is
\* not XMLHttpRequest raises PermissionDenied in the upload, list and crop
\* views, and neither the model/URL configuration check nor the parsing of
\* pks or of the crop box has run; such a request never ends in a
\* configuration error or a SuspiciousOperation.
C11_NonXhrIsDeniedFirst ==
    (last.op = "setup" /\ last.request.header # "XMLHttpRequest") =>
        /\ last.out.exc = "PermissionDenied"
        /\ last.out.ran = <<>>

\* a crop request without the header, to a view with no target_model, that
\* posts no crop box
C11_Witness ==
    /\ last.op = "setup" /\ last.kind = "crop"
    /\ last.request.header = "missing" /\ last.request.cropped = "missing"
    /\ view.target_model = "None"
    /\ last.out.exc = "PermissionDenied"

\* the pks parameter URL-decodes and JSON-decodes to a list of non-negative
\* integers (3 or "3")
DecodesToIdList(quoting, pks) ==
    /\ Truthy(pks) /\ quoting <= 2 /\ IsJsonText(pks)
    /\ IsIdList(Loads(pks))

\* C12: get_and_validate_pks_from_request raises SuspiciousOperation when
\* pks is missing or empty, does not decode to a list, or holds an element
\* that is not a non-negative integer; in every other case it returns the
\* decoded list unchanged.
C12_PksValidatedOrSuspicious ==
    last.op = "pks" =>
        IF DecodesToIdList(last.quoting, last.in)
        THEN last.out = Return(Loads(last.in))
        ELSE last.out.exc = "SuspiciousOperation"

\* the step is a read of the attribute
IsRead == last'.op = "get"

\* the last operation put a raw value (None or a list) into the attribute
RawValueJustSet ==
    \/ last.op = "load"
    \/ last.op = "set" /\ last.in.k # "GalleryImages"

\* what the claim says of a read that follows an assignment: a new proxy is
\* built from the assigned value, whatever was assigned
C13_AssignmentAlwaysRebuilds ==
    [][(IsRead /\ last.op \in {"set", "load"}) =>
            /\ last'.built
            /\ last'.ret.items = assigned.items]_vars

\* C13: a read when the object the previous read returned is still the
\* attribute's entry (no assignment since) builds nothing and returns that
\* same object, with the changes made through it; a read that follows the
\* assignment or load of a raw value builds a new proxy from that value.
C13_ProxyBuiltOncePerRawValue ==
    [][IsRead =>
            /\ held.same => (~last'.built /\ last'.again /\ last'.ret = held.obj)
            /\ RawValueJustSet =>
                    (/\ last'.built /\ ~last'.again
                     /\ last'.ret.items = assigned.items
                     /\ last'.ret.value = assigned.items)]_vars

\* a second read returns the proxy of the first with an id appended through it
C13_Witness ==
    /\ last.op = "get" /\ last.again /\ ~last.built
    /\ assigned = List(<<IdElem(1)>>)
    /\ last.ret.items = <<IdElem(1), IdElem(2)>>

\* the configurations the claim calls wrong: no target_model, no or an
\* unresolvable crop_url_name, or a model of one's own with the built-in
\* crop URL
Misconfigured(cfg) ==
    \/ cfg.target_model = "None"
    \/ cfg.crop_url_name \in {"None", "unresolvable"}
    \/ cfg.target_model # "default" /\ cfg.crop_url_name = "default"

\* C14: setup_model_and_image_field raises ImproperlyConfigured exactly for
\* the wrong configurations; with any other configuration, a model of one's
\* own with its own resolvable crop_url_name included, it completes and
\* setup goes on.
C14_ImproperlyConfiguredOnlyWhenMisconfigured ==
    (last.op = "setup" /\ last.request.header = "XMLHttpRequest") =>
        IF Misconfigured(view)
        THEN last.out.exc = "ImproperlyConfigured"
        ELSE /\ last.out.exc # "ImproperlyConfigured"
             /\ Len(last.out.ran) >= 2
             /\ last.out.ran[2] = "get_and_validate_preview_size"

\* the URL name the claim gives for an image model: its name in lower case
\* and the suffix
ExpectedUrl(image_model, suffix) ==
    IF image_model = "my_app.MyImage" THEN UrlName("myimage", suffix)
    ELSE UrlName("builtingalleryimage", suffix)

\* C15: after a widget is assigned (at construction or later), the widget
\* the field holds carries the field's limit, image model and
\* widget_is_servicing; on a GalleryWidget upload_handler_url is
\* <model name in lower case>-upload and fetch_request_url is <...>-fetch
\* exactly when the widget did not give them, a URL the widget gave stays,
\* fetch_request_url stays as it was when disable_fetch is set, and a widget
\* that is no GalleryWidget gets neither URL.
C15_WidgetTakesAttributesAndDefaultUrls ==
    last.op \in {"set_widget", "w_init_widget"} =>
        LET given == last.widget
            w == wfield.widget
        IN  /\ w.kind = given.kind /\ w.disable_fetch = given.disable_fetch
            /\ w.max_number_of_images = wfield.max
            /\ w.image_model = wfield.image_model
            /\ w.widget_is_servicing = wfield.widget_is_servicing
            /\ IF given.kind = "GalleryWidget"
               THEN /\ w.upload_handler_url =
                        IF given.upload_handler_url \in {NoneUrl, EmptyUrl}
                        THEN ExpectedUrl(wfield.image_model, "upload")
                        ELSE given.upload_handler_url
                    /\ w.fetch_request_url =
                        IF given.disable_fetch
                            \/ given.fetch_request_url \notin {NoneUrl, EmptyUrl}
                        THEN given.fetch_request_url
                        ELSE ExpectedUrl(wfield.image_model, "fetch")
               ELSE /\ w.upload_handler_url = NoUrlAttr
                    /\ w.fetch_request_url = NoUrlAttr

\* a GalleryWidget that gives its upload URL and disables fetching, assigned
\* to the field of a model of the project's own
C15_Witness ==
    /\ last.op = "set_widget"
    /\ last.widget = Widget("GalleryWidget", UrlName("custom", "upload"), NoneUrl, TRUE)
    /\ wfield.image_model = "my_app.MyImage" /\ wfield.max = PyInt(1)
    /\ wfield.widget.upload_handler_url = UrlName("custom", "upload")
    /\ wfield.widget.fetch_request_url = NoneUrl

\* C16: on a field whose limit was only ever assigned through
\* max_number_of_images, a list of ids fails the image-count check exactly
\* when it is longer than the value assigned last (never when that is None),
\* and the field holds at most one image-count validator (stated for the
\* lists whose ids all have a row and for a last value that is None or at
\* least 1).
C16_OnlyLatestLimitEnforced ==
    /\ (/\ last.op = "w_clean" /\ IsIdList(Loads(last.in))
        /\ \A i \in DOMAIN last.in.items : HasRow(last.in.items[i])
        /\ wfield.max.k = "int" => wfield.max.n >= 1) =>
            ("max_number_of_images" \in last.out.codes
                <=> (wfield.max.k = "int" /\ Len(last.in.items) > wfield.max.n))
    /\ Len(wfield.validators) <= 1

\* C17: the id sequence the objects query of a proxy filters and orders by
\* (_value) is the proxy's current content, also after in-place changes, so
\* objects yields the rows of the current content in its order.
C17_ObjectsFollowCurrentContent ==
    /\ winst.k = "GalleryImages" => winst.value = winst.items
    /\ last.op = "objects" => InOrderOf(last.ret, winst.items)

\* C18: clean ends by returning a compressed value or by raising
\* ValidationError, for every submitted value on required and on
\* non-required fields; no other exception escapes.
C18_CleanReturnsOrRaisesValidationError ==
    (last.op = "g_clean" /\ last.cleaned = last.in) =>
        \/ last.out.exc = "none" /\ IsStr(last.out.val)
        \/ last.out.exc = "ValidationError" /\ last.out.codes # {}

====
